---------------------------- MODULE Spec2Model ----------------------------
(***************************************************************************)
(* Command dispatch and dialogue engine of alpha_assistant.py.             *)
(*                                                                         *)
(* Text is modelled as a sequence of one-character strings, so that        *)
(* substring containment (`in`), str.replace, str.strip and str.lower are  *)
(* computed on the characters the way Python computes them.                *)
(***************************************************************************)
EXTENDS Integers, Sequences, FiniteSets, TLC

(***************************************************************************)
(* Trigger keywords of parse_and_execute, as written in the source.        *)
(***************************************************************************)
kw_exit == <<"e", "x", "i", "t">>
kw_quit == <<"q", "u", "i", "t">>
kw_bye == <<"b", "y", "e">>
kw_goodbye == <<"g", "o", "o", "d", "b", "y", "e">>
kw_time == <<"t", "i", "m", "e">>
kw_date == <<"d", "a", "t", "e">>
kw_your_name == <<"y", "o", "u", "r", " ", "n", "a", "m", "e">>
kw_what_is_your_name == <<"w", "h", "a", "t", " ", "i", "s", " ", "y", "o", "u", "r", " ", "n", "a", "m", "e">>
kw_how_can_you_help == <<"h", "o", "w", " ", "c", "a", "n", " ", "y", "o", "u", " ", "h", "e", "l", "p">>
kw_how_can_you_help_me == <<"h", "o", "w", " ", "c", "a", "n", " ", "y", "o", "u", " ", "h", "e", "l", "p", " ", "m", "e">>
kw_wikipedia == <<"w", "i", "k", "i", "p", "e", "d", "i", "a">>
kw_search == <<"s", "e", "a", "r", "c", "h">>
kw_search_in_chrome == <<"s", "e", "a", "r", "c", "h", " ", "i", "n", " ", "c", "h", "r", "o", "m", "e">>
kw_google == <<"g", "o", "o", "g", "l", "e">>
kw_send_email == <<"s", "e", "n", "d", " ", "e", "m", "a", "i", "l">>
kw_email == <<"e", "m", "a", "i", "l">>
kw_screenshot == <<"s", "c", "r", "e", "e", "n", "s", "h", "o", "t">>
kw_screen_shot == <<"s", "c", "r", "e", "e", "n", " ", "s", "h", "o", "t">>
kw_cpu == <<"c", "p", "u">>
kw_battery == <<"b", "a", "t", "t", "e", "r", "y">>
kw_remember_that == <<"r", "e", "m", "e", "m", "b", "e", "r", " ", "t", "h", "a", "t">>
kw_remember == <<"r", "e", "m", "e", "m", "b", "e", "r">>
kw_do_you_know_anything == <<"d", "o", " ", "y", "o", "u", " ", "k", "n", "o", "w", " ", "a", "n", "y", "t", "h", "i", "n", "g">>
kw_what_do_you_remember == <<"w", "h", "a", "t", " ", "d", "o", " ", "y", "o", "u", " ", "r", "e", "m", "e", "m", "b", "e", "r">>
kw_what_did_i_tell_you == <<"w", "h", "a", "t", " ", "d", "i", "d", " ", "i", " ", "t", "e", "l", "l", " ", "y", "o", "u">>
kw_play == <<"p", "l", "a", "y">>
kw_play_song == <<"p", "l", "a", "y", " ", "s", "o", "n", "g">>
kw_joke == <<"j", "o", "k", "e">>

(***************************************************************************)
(* Words and utterances the user may say or type.                          *)
(***************************************************************************)
w_space == <<" ">>
w_cats == <<"c", "a", "t", "s">>
w_imagine == <<"i", "m", "a", "g", "i", "n", "e">>
w_buy_milk == <<"b", "u", "y", " ", "m", "i", "l", "k">>
w_alice == <<"a", "l", "i", "c", "e", "@", "e", "x", "a", "m", "p", "l", "e", ".", "c", "o", "m">>
w_no_dot == <<"a", "l", "i", "c", "e", "@", "e", "x", "a", "m", "p", "l", "e">>
w_spaced == <<"t", "o", " ", "a", "l", "i", "c", "e", "@", "e", "x", "a", "m", "p", "l", "e", ".", "c", "o", "m">>
u_what_time_is_it == <<"w", "h", "a", "t", " ", "t", "i", "m", "e", " ", "i", "s", " ", "i", "t">>
u_plplayay == <<"p", "l", "p", "l", "a", "y", "a", "y">>
u_goosearchgle == <<"g", "o", "o", "s", "e", "a", "r", "c", "h", "g", "l", "e">>
u_wikiwikipediapedia == <<"w", "i", "k", "i", "w", "i", "k", "i", "p", "e", "d", "i", "a", "p", "e", "d", "i", "a">>
u_remember_buy_milk == <<"r", "e", "m", "e", "m", "b", "e", "r", " ", "b", "u", "y", " ", "m", "i", "l", "k">>
r_Quit_padded == <<" ", "Q", "U", "I", "T", " ">>
r_Play_Imagine == <<"P", "l", "a", "y", " ", "I", "m", "a", "g", "i", "n", "e">>
r_Alice_padded == <<" ", "A", "l", "i", "c", "e", "@", "E", "x", "a", "m", "p", "l", "e", ".", "c", "o", "m", " ">>
r_tab == <<"\t">>

\* The placeholder subject of the e-mail override.
w_no_subject == <<"N", "o", " ", "s", "u", "b", "j", "e", "c", "t">>

(***************************************************************************)
(* Python string operations.                                               *)
(***************************************************************************)
UpperCase == <<"A", "B", "C", "D", "E", "F", "G", "H", "I", "J", "K", "L", "M",
               "N", "O", "P", "Q", "R", "S", "T", "U", "V", "W", "X", "Y", "Z">>
LowerCase == <<"a", "b", "c", "d", "e", "f", "g", "h", "i", "j", "k", "l", "m",
               "n", "o", "p", "q", "r", "s", "t", "u", "v", "w", "x", "y", "z">>

\* The characters str.strip() removes at both ends.
Whitespace == {" ", "\t"}

LowerChar(c) ==
    IF \E i \in DOMAIN UpperCase : UpperCase[i] = c
    THEN LowerCase[CHOOSE i \in DOMAIN UpperCase : UpperCase[i] = c]
    ELSE c

\* s.lower()
Lower(s) == [i \in DOMAIN s |-> LowerChar(s[i])]

\* s.strip()
RECURSIVE LStrip(_)
LStrip(s) ==
    IF s # <<>> /\ Head(s) \in Whitespace THEN LStrip(Tail(s)) ELSE s

RECURSIVE RStrip(_)
RStrip(s) ==
    IF s # <<>> /\ s[Len(s)] \in Whitespace
    THEN RStrip(SubSeq(s, 1, Len(s) - 1))
    ELSE s

Strip(s) == RStrip(LStrip(s))

\* s.startswith(w)
StartsWith(s, w) == Len(w) <= Len(s) /\ SubSeq(s, 1, Len(w)) = w

\* w in s
In(w, s) == \E i \in 0..(Len(s) - Len(w)) : SubSeq(s, i + 1, i + Len(w)) = w

\* s.replace(w, ""): one left-to-right pass over non-overlapping occurrences.
RECURSIVE Remove(_, _)
Remove(s, w) ==
    IF Len(s) < Len(w) THEN s
    ELSE IF StartsWith(s, w) THEN Remove(SubSeq(s, Len(w) + 1, Len(s)), w)
    ELSE <<Head(s)>> \o Remove(Tail(s), w)

\* a slip: `s is None` in place of `not s`
Empty_IsNone(s) == FALSE

\* `not s`
Empty(s) == s = <<>>


(***************************************************************************)
(* Inputs.  What the user says or types is drawn from concatenations of at *)
(* most MaxFrags fragments (every trigger family occurs among them, so     *)
(* every pair of predicates overlaps in some utterance), and from a few    *)
(* whole utterances with upper case, padding or nested triggers.           *)
(***************************************************************************)
MaxFrags == 2

Fragments ==
    { kw_exit, kw_time, kw_date, kw_your_name, kw_how_can_you_help,
      kw_wikipedia, kw_search, kw_email, kw_screenshot, kw_cpu, kw_remember,
      kw_what_did_i_tell_you, kw_play, kw_joke, w_space }

RECURSIVE Concat(_)
Concat(n) ==
    IF n = 0 THEN { <<>> }
    ELSE Concat(n - 1) \cup { s \o f : s \in Concat(n - 1), f \in Fragments }

Samples ==
    { kw_quit, kw_bye, kw_goodbye, kw_google, kw_battery, kw_screen_shot,
      kw_send_email, kw_play_song, kw_what_do_you_remember,
      kw_do_you_know_anything, u_what_time_is_it, u_plplayay, u_goosearchgle,
      u_wikiwikipediapedia, u_remember_buy_milk, r_Quit_padded,
      r_Play_Imagine, r_tab, w_cats, w_space \o w_cats }

\* What may be said or typed when main asks for a command.
Commands == Concat(MaxFrags) \cup Samples

\* What may be said or typed in answer to a follow-up question.
Answers ==
    { <<>>, w_space, w_imagine, kw_quit, w_alice, w_spaced, w_no_dot,
      r_Alice_padded }

\* What may be said or typed as the body of an e-mail, and as a note.
Bodies == { <<>>, w_buy_milk }

\* What may be said or typed as the subject of an e-mail.
Subjects == { <<>>, w_alice, w_no_dot, r_Alice_padded }

\* What may be typed at the "Recipient email: " prompt.
Recipients == { <<>>, r_Alice_padded }

(***************************************************************************)
(* Markers for "no text": an unassigned local, a missing file, a closed    *)
(* standard input.                                                         *)
(***************************************************************************)
Unset == <<"<unset>">>
NoFile == <<"<no file>">>
EndOfFile == <<"<eof>">>

(***************************************************************************)
(* Messages passed to speak().  A message is <<text>> or <<text, value>>.  *)
(***************************************************************************)
Msg(text) == <<text>>
MsgOf(text, value) == <<text, value>>

Listening == Msg("Listening...")
Recognizing == Msg("Recognizing...")
NoSpeech == Msg("No speech detected within the timeout. Please type your command.")
NotUnderstood == Msg("Sorry, I did not understand. Please type your command.")
ServiceFailed == Msg("Speech recognition service failed. Please type your command.")
Farewell == Msg("Goodbye. Have a nice day.")
MyName == Msg("My name is Alpha.")
HelpText == Msg("I can tell time, take screenshots, send email, search the web, play songs and more.")
AskTerm == Msg("What would you like me to search on Wikipedia?")
AskSearch == Msg("What should I search for?")
AskSubject == Msg("What should be the subject?")
AskBody == Msg("What should I say in the email?")
AskRecipient == Msg("Who should I send it to? Please type the email address.")
AskNote == Msg("What should I remember?")
AskSong == Msg("Which song should I play?")
NotUnderstoodExactly == Msg("I did not understand exactly. I will search the web for you.")
ShuttingDown == Msg("Shutting down. Goodbye.")
ErrorExiting == Msg("An error occurred. Exiting.")


(***************************************************************************)
(* take_command.  One call has one of seven outcomes; `raw` is what the    *)
(* recogniser heard or what the user typed (EndOfFile: standard input is   *)
(* closed, input() raises).  The result says what was spoken, whether the  *)
(* call raised, and the value returned.                                    *)
(***************************************************************************)
InputResult(outcome, said, raw, raised, value) ==
    [outcome |-> outcome, said |-> said, raw |-> raw, raised |-> raised,
     value |-> value]

\* input("Type command: ").strip().lower()
TypeCommand(outcome, said, raw) ==
    IF raw = EndOfFile
    THEN InputResult(outcome, said, raw, TRUE, Unset)
    ELSE InputResult(outcome, said, raw, FALSE, Lower(Strip(raw)))

take_command(Raw) ==
    \* sr.Microphone() raises outside every try block
    { InputResult("no_microphone", <<>>, Unset, TRUE, Unset) }
    \* r.listen raises something other than WaitTimeoutError
    \cup { InputResult("listen_fault", <<Listening>>, Unset, TRUE, Unset) }
    \* sr.WaitTimeoutError
    \cup { TypeCommand("timeout", <<Listening, NoSpeech>>, raw) :
             raw \in Raw \cup {EndOfFile} }
    \* recognize_google returned a transcript
    \cup { InputResult("recognized", <<Listening, Recognizing>>, raw, FALSE,
                       Lower(raw)) : raw \in Raw }
    \* sr.UnknownValueError
    \cup { TypeCommand("unknown_value",
                       <<Listening, Recognizing, NotUnderstood>>, raw) :
             raw \in Raw \cup {EndOfFile} }
    \* sr.RequestError
    \cup { TypeCommand("request_error",
                       <<Listening, Recognizing, ServiceFailed>>, raw) :
             raw \in Raw \cup {EndOfFile} }
    \* any other Exception while recognising
    \cup { TypeCommand("unexpected", <<Listening, Recognizing>>, raw) :
             raw \in Raw \cup {EndOfFile} }

(***************************************************************************)
(* parse_and_execute: the chain of keyword tests, in source order, and the *)
(* slot extraction of the branches that take a slot from the utterance.    *)
(***************************************************************************)
\* a slip: the e-mail test moved behind the play test
BranchAfterMeta_EmailLate(q) ==
    IF In(kw_wikipedia, q) THEN "WikiLookup"
    ELSE IF In(kw_search, q) \/ In(kw_search_in_chrome, q) \/ In(kw_google, q)
    THEN "WebSearch"
    ELSE IF In(kw_screenshot, q) \/ In(kw_screen_shot, q) THEN "Screenshot"
    ELSE IF In(kw_cpu, q) \/ In(kw_battery, q) THEN "SystemStatus"
    ELSE IF In(kw_remember_that, q) \/ In(kw_remember, q) THEN "Remember"
    ELSE IF In(kw_do_you_know_anything, q) \/ In(kw_what_do_you_remember, q)
            \/ In(kw_what_did_i_tell_you, q)
    THEN "RecallMemory"
    ELSE IF In(kw_play, q) \/ In(kw_play_song, q) THEN "PlaySong"
    ELSE IF In(kw_send_email, q) \/ In(kw_email, q) THEN "SendEmail"
    ELSE IF In(kw_joke, q) THEN "Joke"
    ELSE "FallbackSearch"

\* a slip: the recall test moved ahead of the remember test
BranchAfterMeta_RecallFirst(q) ==
    IF In(kw_wikipedia, q) THEN "WikiLookup"
    ELSE IF In(kw_search, q) \/ In(kw_search_in_chrome, q) \/ In(kw_google, q)
    THEN "WebSearch"
    ELSE IF In(kw_send_email, q) \/ In(kw_email, q) THEN "SendEmail"
    ELSE IF In(kw_screenshot, q) \/ In(kw_screen_shot, q) THEN "Screenshot"
    ELSE IF In(kw_cpu, q) \/ In(kw_battery, q) THEN "SystemStatus"
    ELSE IF In(kw_do_you_know_anything, q) \/ In(kw_what_do_you_remember, q)
            \/ In(kw_what_did_i_tell_you, q)
    THEN "RecallMemory"
    ELSE IF In(kw_remember_that, q) \/ In(kw_remember, q) THEN "Remember"
    ELSE IF In(kw_play, q) \/ In(kw_play_song, q) THEN "PlaySong"
    ELSE IF In(kw_joke, q) THEN "Joke"
    ELSE "FallbackSearch"

\* lines 328-402: from the Wikipedia test to the fallback
BranchAfterMeta(q) ==
    IF In(kw_wikipedia, q) THEN "WikiLookup"
    ELSE IF In(kw_search, q) \/ In(kw_search_in_chrome, q) \/ In(kw_google, q)
    THEN "WebSearch"
    ELSE IF In(kw_send_email, q) \/ In(kw_email, q) THEN "SendEmail"
    ELSE IF In(kw_screenshot, q) \/ In(kw_screen_shot, q) THEN "Screenshot"
    ELSE IF In(kw_cpu, q) \/ In(kw_battery, q) THEN "SystemStatus"
    ELSE IF In(kw_remember_that, q) \/ In(kw_remember, q) THEN "Remember"
    ELSE IF In(kw_do_you_know_anything, q) \/ In(kw_what_do_you_remember, q)
            \/ In(kw_what_did_i_tell_you, q)
    THEN "RecallMemory"
    ELSE IF In(kw_play, q) \/ In(kw_play_song, q) THEN "PlaySong"
    ELSE IF In(kw_joke, q) THEN "Joke"
    ELSE "FallbackSearch"

\* a slip: the screenshot test moved ahead of the time test
BranchAfterExit_ScreenshotFirst(q) ==
    IF In(kw_screenshot, q) \/ In(kw_screen_shot, q) THEN "Screenshot"
    ELSE IF In(kw_time, q) THEN "TellTime"
    ELSE IF In(kw_date, q) THEN "TellDate"
    ELSE IF In(kw_your_name, q) \/ In(kw_what_is_your_name, q) THEN "Identify"
    ELSE IF In(kw_how_can_you_help, q) \/ In(kw_how_can_you_help_me, q)
    THEN "Help"
    ELSE BranchAfterMeta(q)

\* lines 312-326: time and date, greetings and meta
BranchAfterExit(q) ==
    IF In(kw_time, q) THEN "TellTime"
    ELSE IF In(kw_date, q) THEN "TellDate"
    ELSE IF In(kw_your_name, q) \/ In(kw_what_is_your_name, q) THEN "Identify"
    ELSE IF In(kw_how_can_you_help, q) \/ In(kw_how_can_you_help_me, q)
    THEN "Help"
    ELSE BranchAfterMeta(q)

\* a slip: the time test moved ahead of the control commands
Branch_TimeBeforeExit(q) ==
    IF In(kw_time, q) THEN "TellTime"
    ELSE IF In(kw_exit, q) \/ In(kw_quit, q) \/ In(kw_bye, q)
            \/ In(kw_goodbye, q)
    THEN "Exit"
    ELSE BranchAfterExit(q)

\* lines 307-310: control commands first
Branch(q) ==
    IF In(kw_exit, q) \/ In(kw_quit, q) \/ In(kw_bye, q) \/ In(kw_goodbye, q)
    THEN "Exit"
    ELSE BranchAfterExit(q)

\* term = query.replace("wikipedia", "").strip()
WikiTerm(q) == Strip(Remove(q, kw_wikipedia))

\* to_search = query.replace("search in chrome", "").replace("search", "")
\*                  .replace("google", "").strip()
SearchTerm(q) ==
    Strip(Remove(Remove(Remove(q, kw_search_in_chrome), kw_search), kw_google))

\* a slip: the trailing .strip() left out
SongName_NoStrip(q) == Remove(Remove(q, kw_play), kw_play_song)

\* song = query.replace("play", "").replace("play song", "").strip()
SongName(q) == Strip(Remove(Remove(q, kw_play), kw_play_song))

\* a slip: the test for "." left out
LooksLikeAddress_NoDotTest(subject) ==
    In(<<"@">>, subject) /\ ~In(<<" ">>, subject)

\* "@" in subject and "." in subject and " " not in subject
LooksLikeAddress(subject) ==
    In(<<"@">>, subject) /\ In(<<".">>, subject) /\ ~In(<<" ">>, subject)


(***************************************************************************)
(* State.                                                                  *)
(*   pc           where main is: "main" (the while test), "take_command"   *)
(*                (line 414), "parse" (line 415), "ask_..." (a follow-up   *)
(*                read inside parse_and_execute), "call" (a handler is     *)
(*                about to run), "end" (the loop has been left)            *)
(*   keep_running main's loop variable                                     *)
(*   query        the utterance of the turn                                *)
(*   intent       the branch of parse_and_execute taken in the turn        *)
(*   slots        the locals term, to_search, subject, body, to_addr,      *)
(*                note and song of parse_and_execute                       *)
(*   out          what parse_and_execute, the handlers and main have       *)
(*                spoken in the turn                                       *)
(*   calls        the handler calls of the turn, with their arguments      *)
(*   effects      the external effects the handlers performed in the turn  *)
(*   answers      what the take_command calls made inside                  *)
(*                parse_and_execute returned, in call order                *)
(*   typed        the lines read at the "Recipient email: " prompt         *)
(*   noteFile     content of data.txt, NoFile when it does not exist       *)
(*   lastInput    the result of a take_command call examined on its own    *)
(***************************************************************************)
VARIABLES pc, keep_running, query, intent, slots, out, calls, effects,
          answers, typed, noteFile, lastInput

vars == <<pc, keep_running, query, intent, slots, out, calls, effects,
          answers, typed, noteFile, lastInput>>

turn == <<query, intent, slots, out, calls, effects, answers, typed>>

NoSlots ==
    [term |-> Unset, to_search |-> Unset, subject |-> Unset, body |-> Unset,
     to_addr |-> Unset, note |-> Unset, song |-> Unset]

NoInput == InputResult("none", <<>>, Unset, FALSE, Unset)

\* The session of the spec: TERMINATED once the loop of main has been left.
Session == IF pc = "end" THEN "TERMINATED" ELSE "RUNNING"

\* data.txt is left over from an earlier run, or absent.
Init ==
    /\ pc = "main"
    /\ keep_running = TRUE
    /\ query = Unset
    /\ intent = "none"
    /\ slots = NoSlots
    /\ out = <<>>
    /\ calls = <<>>
    /\ effects = <<>>
    /\ answers = <<>>
    /\ typed = <<>>
    /\ noteFile \in {NoFile, w_buy_milk}
    /\ lastInput = NoInput

Say(m) == out' = Append(out, m)
Call(fn, args) == calls' = Append(calls, <<fn, args>>)
Effect(what, arg) == effects' = Append(effects, <<what, arg>>)

\* return from parse_and_execute to the assignment of line 415
Return(ret) == pc' = "main" /\ keep_running' = ret

\* except Exception in main (lines 418-420)
Unhandled == pc' = "end" /\ Say(ErrorExiting)

(***************************************************************************)
(* main: the while test of line 413, and the call of line 414.             *)
(***************************************************************************)
main_loop ==
    /\ pc = "main"
    /\ IF keep_running
       THEN /\ pc' = "take_command"
            /\ query' = Unset
            /\ intent' = "none"
            /\ slots' = NoSlots
            /\ out' = <<>>
            /\ calls' = <<>>
            /\ effects' = <<>>
            /\ answers' = <<>>
            /\ typed' = <<>>
       ELSE /\ pc' = "end"
            /\ UNCHANGED turn
    /\ UNCHANGED <<keep_running, noteFile, lastInput>>

main_take_command ==
    /\ pc = "take_command"
    /\ \E r \in take_command(Commands) :
         IF r.raised
         THEN Unhandled /\ UNCHANGED query
         ELSE pc' = "parse" /\ query' = r.value /\ UNCHANGED out
    /\ UNCHANGED <<keep_running, intent, slots, calls, effects, answers,
                   typed, noteFile, lastInput>>

\* a slip: the interrupt is reported and the loop goes on
KeyboardInterrupt_Resumes ==
    /\ pc # "end"
    /\ pc' = "main"
    /\ Say(ShuttingDown)
    /\ UNCHANGED <<keep_running, query, intent, slots, calls, effects,
                   answers, typed, noteFile, lastInput>>

\* except KeyboardInterrupt in main (lines 416-417)
KeyboardInterrupt ==
    /\ pc # "end"
    /\ pc' = "end"
    /\ Say(ShuttingDown)
    /\ UNCHANGED <<keep_running, query, intent, slots, calls, effects,
                   answers, typed, noteFile, lastInput>>


(***************************************************************************)
(* parse_and_execute, up to its first follow-up read or handler call.      *)
(***************************************************************************)
NoSlotIntents ==
    {"TellTime", "TellDate", "Screenshot", "SystemStatus", "RecallMemory",
     "Joke"}

parse_and_execute ==
    /\ pc = "parse"
    /\ UNCHANGED <<query, calls, effects, answers, typed, noteFile,
                   lastInput>>
    /\ IF Empty(query)
       THEN Return(TRUE) /\ UNCHANGED <<intent, slots, out>>
       ELSE LET b == Branch(query) IN
            /\ intent' = b
            /\ CASE b = "Exit" ->
                      Say(Farewell) /\ Return(FALSE) /\ UNCHANGED slots
                 [] b \in NoSlotIntents ->
                      pc' = "call" /\ UNCHANGED <<keep_running, slots, out>>
                 [] b = "Identify" ->
                      Say(MyName) /\ Return(TRUE) /\ UNCHANGED slots
                 [] b = "Help" ->
                      Say(HelpText) /\ Return(TRUE) /\ UNCHANGED slots
                 [] b = "WikiLookup" ->
                      LET term == WikiTerm(query) IN
                      /\ slots' = [slots EXCEPT !.term = term]
                      /\ IF Empty(term)
                         THEN Say(AskTerm) /\ pc' = "ask_term"
                         ELSE pc' = "call" /\ UNCHANGED out
                      /\ UNCHANGED keep_running
                 [] b = "WebSearch" ->
                      LET to_search == SearchTerm(query) IN
                      /\ slots' = [slots EXCEPT !.to_search = to_search]
                      /\ IF Empty(to_search)
                         THEN Say(AskSearch) /\ pc' = "ask_search"
                         ELSE pc' = "call" /\ UNCHANGED out
                      /\ UNCHANGED keep_running
                 [] b = "SendEmail" ->
                      /\ Say(AskSubject)
                      /\ pc' = "ask_subject"
                      /\ UNCHANGED <<keep_running, slots>>
                 [] b = "Remember" ->
                      /\ Say(AskNote)
                      /\ pc' = "ask_note"
                      /\ UNCHANGED <<keep_running, slots>>
                 [] b = "PlaySong" ->
                      LET song == SongName(query) IN
                      /\ slots' = [slots EXCEPT !.song = song]
                      /\ IF Empty(song)
                         THEN Say(AskSong) /\ pc' = "ask_song"
                         ELSE pc' = "call" /\ UNCHANGED out
                      /\ UNCHANGED keep_running
                 [] b = "FallbackSearch" ->
                      /\ Say(NotUnderstoodExactly)
                      /\ pc' = "call"
                      /\ UNCHANGED <<keep_running, slots>>

(***************************************************************************)
(* The follow-up reads of parse_and_execute.                               *)
(***************************************************************************)
\* x = take_command() at position `at`, then on to `next`
FollowUp(at, slot, Raw, next) ==
    /\ pc = at
    /\ \E r \in take_command(Raw) :
         IF r.raised
         THEN Unhandled /\ UNCHANGED <<slots, answers>>
         ELSE /\ slots' = [slots EXCEPT ![slot] = r.value]
              /\ answers' = Append(answers, r.value)
              /\ pc' = next
              /\ UNCHANGED out
    /\ UNCHANGED <<keep_running, query, intent, calls, effects, typed,
                   noteFile, lastInput>>

\* the follow-up read as a loop: an empty answer is asked for again
FollowUp_Reasks(at, slot, Raw, next, prompt) ==
    /\ pc = at
    /\ \E r \in take_command(Raw) :
         IF r.raised
         THEN Unhandled /\ UNCHANGED <<slots, answers>>
         ELSE /\ slots' = [slots EXCEPT ![slot] = r.value]
              /\ answers' = Append(answers, r.value)
              /\ IF Empty(r.value) /\ Len(answers) < 2
                 THEN pc' = at /\ Say(prompt)
                 ELSE pc' = next /\ UNCHANGED out
    /\ UNCHANGED <<keep_running, query, intent, calls, effects, typed,
                   noteFile, lastInput>>

\* a slip: `while not term` in place of `if not term`
ask_term_Reasks == FollowUp_Reasks("ask_term", "term", Answers, "call", AskTerm)

\* a slip: the answer is run through the exit test again
ask_term_Reparses ==
    /\ pc = "ask_term"
    /\ \E r \in take_command(Answers) :
         IF r.raised
         THEN Unhandled /\ UNCHANGED <<slots, answers, keep_running>>
         ELSE /\ slots' = [slots EXCEPT !.term = r.value]
              /\ answers' = Append(answers, r.value)
              /\ IF In(kw_exit, r.value) \/ In(kw_quit, r.value)
                    \/ In(kw_bye, r.value) \/ In(kw_goodbye, r.value)
                 THEN Say(Farewell) /\ Return(FALSE)
                 ELSE pc' = "call" /\ UNCHANGED <<out, keep_running>>
    /\ UNCHANGED <<query, intent, calls, effects, typed, noteFile, lastInput>>

\* line 334
ask_term == FollowUp("ask_term", "term", Answers, "call")

\* a slip: `while not to_search` in place of `if not to_search`
ask_search_Reasks ==
    FollowUp_Reasks("ask_search", "to_search", Answers, "call", AskSearch)

\* line 344
ask_search == FollowUp("ask_search", "to_search", Answers, "call")

\* line 377
ask_note == FollowUp("ask_note", "note", Bodies, "call")

\* a slip: the answer is stored in another local
ask_song_WrongLocal == FollowUp("ask_song", "term", Answers, "call")

\* line 390
ask_song == FollowUp("ask_song", "song", Answers, "call")

\* lines 351-352
ask_subject ==
    /\ pc = "ask_subject"
    /\ \E r \in take_command(Subjects) :
         IF r.raised
         THEN Unhandled /\ UNCHANGED <<slots, answers>>
         ELSE /\ slots' = [slots EXCEPT !.subject = r.value]
              /\ answers' = Append(answers, r.value)
              /\ Say(AskBody)
              /\ pc' = "ask_body"
    /\ UNCHANGED <<keep_running, query, intent, calls, effects, typed,
                   noteFile, lastInput>>

\* lines 353-359
ask_body ==
    /\ pc = "ask_body"
    /\ \E r \in take_command(Bodies) :
         IF r.raised
         THEN Unhandled /\ UNCHANGED <<slots, answers>>
         ELSE IF LooksLikeAddress(slots.subject)
         THEN /\ slots' = [slots EXCEPT !.body = r.value,
                                        !.to_addr = slots.subject,
                                        !.subject = w_no_subject]
              /\ answers' = Append(answers, r.value)
              /\ pc' = "call"
              /\ UNCHANGED out
         ELSE /\ slots' = [slots EXCEPT !.body = r.value]
              /\ answers' = Append(answers, r.value)
              /\ Say(AskRecipient)
              /\ pc' = "ask_recipient"
    /\ UNCHANGED <<keep_running, query, intent, calls, effects, typed,
                   noteFile, lastInput>>

\* line 360: to_addr = input("Recipient email: ").strip()
ask_recipient ==
    /\ pc = "ask_recipient"
    /\ \E raw \in Recipients \cup {EndOfFile} :
         IF raw = EndOfFile
         THEN Unhandled /\ UNCHANGED <<slots, typed>>
         ELSE /\ slots' = [slots EXCEPT !.to_addr = Strip(raw)]
              /\ typed' = Append(typed, raw)
              /\ pc' = "call"
              /\ UNCHANGED out
    /\ UNCHANGED <<keep_running, query, intent, calls, effects, answers,
                   noteFile, lastInput>>


(***************************************************************************)
(* The capability handlers.  Each catches its own exceptions, so each      *)
(* returns to parse_and_execute, which returns True.  What the external    *)
(* library does (succeed or raise) is chosen nondeterministically.         *)
(***************************************************************************)
Handler(fn, args, says, effs) ==
    /\ pc = "call"
    /\ Call(fn, args)
    /\ out' = out \o says
    /\ effects' = effects \o effs
    /\ Return(TRUE)
    /\ UNCHANGED <<query, intent, slots, answers, typed, lastInput>>

tell_time ==
    /\ intent = "TellTime"
    /\ Handler("tell_time", <<>>, <<Msg("The current time is")>>, <<>>)
    /\ UNCHANGED noteFile

tell_date ==
    /\ intent = "TellDate"
    /\ Handler("tell_date", <<>>, <<Msg("Today is")>>, <<>>)
    /\ UNCHANGED noteFile

\* a slip: the failure of the handler ends the loop
tell_joke_FailureStops ==
    /\ intent = "Joke"
    /\ pc = "call"
    /\ \E ok \in BOOLEAN :
         /\ Call("tell_joke", <<>>)
         /\ Say(IF ok THEN Msg("<joke>")
                ELSE Msg("Sorry, I could not fetch a joke."))
         /\ Return(ok)
    /\ UNCHANGED <<query, intent, slots, effects, answers, typed, lastInput,
                   noteFile>>

tell_joke ==
    /\ intent = "Joke"
    /\ \E ok \in BOOLEAN :
         Handler("tell_joke", <<>>,
                 IF ok THEN <<Msg("<joke>")>>
                 ELSE <<Msg("Sorry, I could not fetch a joke.")>>,
                 <<>>)
    /\ UNCHANGED noteFile

cpu_status ==
    /\ intent = "SystemStatus"
    /\ \E res \in {"battery", "no_battery", "raises"} :
         Handler("cpu_status", <<>>,
                 CASE res = "battery" ->
                        <<Msg("CPU usage is at"), Msg("Battery is at")>>
                   [] res = "no_battery" ->
                        <<Msg("CPU usage is at"),
                          Msg("Battery information is not available on this system.")>>
                   [] res = "raises" ->
                        <<Msg("Unable to retrieve CPU or battery status.")>>,
                 <<>>)
    /\ UNCHANGED noteFile

take_screenshot ==
    /\ intent = "Screenshot"
    /\ \E ok \in BOOLEAN :
         Handler("take_screenshot", <<>>,
                 IF ok THEN <<Msg("Screenshot saved to")>>
                 ELSE <<Msg("Unable to take screenshot.")>>,
                 <<<<"pyautogui.screenshot", <<>>>>>>)
    /\ UNCHANGED noteFile

\* a slip: the fallback passes the trimmed utterance
search_in_chrome_Trimmed ==
    /\ intent \in {"WebSearch", "FallbackSearch"}
    /\ LET q == IF intent = "WebSearch" THEN slots.to_search
                ELSE Strip(query) IN
       \E ok \in BOOLEAN :
         Handler("search_in_chrome", q,
                 IF ok THEN <<MsgOf("Searching for", q)>>
                 ELSE <<MsgOf("Searching for", q),
                        Msg("Unable to open the web browser.")>>,
                 <<<<"webbrowser.open_new_tab", q>>>>)
    /\ UNCHANGED noteFile

\* search_in_chrome(to_search) of line 345, search_in_chrome(query) of line 401
search_in_chrome ==
    /\ intent \in {"WebSearch", "FallbackSearch"}
    /\ LET q == IF intent = "WebSearch" THEN slots.to_search ELSE query IN
       IF Empty(q)
       THEN Handler("search_in_chrome", q,
                    <<Msg("No search query provided.")>>, <<>>)
       ELSE \E ok \in BOOLEAN :
              Handler("search_in_chrome", q,
                      IF ok THEN <<MsgOf("Searching for", q)>>
                      ELSE <<MsgOf("Searching for", q),
                             Msg("Unable to open the web browser.")>>,
                      <<<<"webbrowser.open_new_tab", q>>>>)
    /\ UNCHANGED noteFile

wiki_lookup ==
    /\ intent = "WikiLookup"
    /\ LET term == slots.term IN
       IF Empty(term)
       THEN Handler("wiki_lookup", term,
                    <<Msg("No search term provided for Wikipedia.")>>, <<>>)
       ELSE \E res \in {"summary", "ambiguous", "no_page", "raises"} :
              Handler("wiki_lookup", term,
                      <<MsgOf("Searching Wikipedia for", term),
                        CASE res = "summary" -> Msg("<summary>")
                          [] res = "ambiguous" ->
                               Msg("The term is ambiguous. Please be more specific.")
                          [] res = "no_page" ->
                               Msg("No Wikipedia page found for that term.")
                          [] res = "raises" ->
                               Msg("An error occurred while searching Wikipedia.")>>,
                      <<<<"wikipedia.summary", term>>>>)
    /\ UNCHANGED noteFile

\* a slip: the test for an empty song name left out
play_song_NoGuard ==
    /\ intent = "PlaySong"
    /\ LET song_name == slots.song IN
       \E ok \in BOOLEAN :
         Handler("play_song", song_name,
                 IF ok THEN <<MsgOf("Playing on YouTube", song_name)>>
                 ELSE <<MsgOf("Playing on YouTube", song_name),
                        Msg("Unable to play the song.")>>,
                 <<<<"pywhatkit.playonyt", song_name>>>>)
    /\ UNCHANGED noteFile

play_song ==
    /\ intent = "PlaySong"
    /\ LET song_name == slots.song IN
       IF Empty(song_name)
       THEN Handler("play_song", song_name, <<Msg("No song specified.")>>, <<>>)
       ELSE \E ok \in BOOLEAN :
              Handler("play_song", song_name,
                      IF ok THEN <<MsgOf("Playing on YouTube", song_name)>>
                      ELSE <<MsgOf("Playing on YouTube", song_name),
                             Msg("Unable to play the song.")>>,
                      <<<<"pywhatkit.playonyt", song_name>>>>)
    /\ UNCHANGED noteFile

send_email ==
    /\ intent = "SendEmail"
    /\ LET args == <<slots.to_addr, slots.subject, slots.body>> IN
       \E res \in {"no_credentials", "sent", "raises"} :
         Handler("send_email", args,
                 CASE res = "no_credentials" ->
                        <<Msg("Email credentials are not configured. Please set EMAIL_USER and EMAIL_PASS environment variables.")>>
                   [] res = "sent" -> <<Msg("Email sent successfully.")>>
                   [] res = "raises" ->
                        <<Msg("Failed to send the email. Check the log for details.")>>,
                 IF res = "no_credentials" THEN <<>>
                 ELSE <<<<"smtplib.SMTP", args>>>>)
    /\ UNCHANGED noteFile

\* open(filename, "w") truncates the file before f.write(note) runs
remember_to_file ==
    /\ intent = "Remember"
    /\ LET note == slots.note IN
       \E res \in {"written", "open_raises", "write_raises"} :
         /\ Handler("remember_to_file", note,
                    IF res = "written" THEN <<Msg("I will remember that.")>>
                    ELSE <<Msg("Unable to save the note.")>>,
                    <<>>)
         /\ noteFile' = CASE res = "written" -> note
                          [] res = "open_raises" -> noteFile
                          [] res = "write_raises" -> <<>>

read_memory ==
    /\ intent = "RecallMemory"
    /\ \/ /\ noteFile = NoFile
          /\ Handler("read_memory", <<>>, <<Msg("I have nothing saved yet.")>>,
                     <<>>)
       \/ /\ noteFile # NoFile
          /\ LET content == Strip(noteFile) IN
             Handler("read_memory", <<>>,
                     IF ~Empty(content)
                     THEN <<Msg("You asked me to remember the following:"),
                            MsgOf("<content>", content)>>
                     ELSE <<Msg("The memory file is empty.")>>,
                     <<>>)
       \/ Handler("read_memory", <<>>,
                  <<Msg("Unable to read the memory file.")>>, <<>>)
    /\ UNCHANGED noteFile

(***************************************************************************)
(* The assistant.                                                          *)
(***************************************************************************)
Next ==
    \/ main_loop
    \/ main_take_command
    \/ parse_and_execute
    \/ ask_term
    \/ ask_search
    \/ ask_subject
    \/ ask_body
    \/ ask_recipient
    \/ ask_note
    \/ ask_song
    \/ tell_time
    \/ tell_date
    \/ tell_joke
    \/ cpu_status
    \/ take_screenshot
    \/ search_in_chrome
    \/ wiki_lookup
    \/ play_song
    \/ send_email
    \/ remember_to_file
    \/ read_memory
    \/ KeyboardInterrupt

Spec == Init /\ [][Next]_vars


(***************************************************************************)
(* take_command on its own: one call, its result kept in lastInput.        *)
(***************************************************************************)
take_command_call ==
    /\ lastInput = NoInput
    /\ lastInput' \in take_command(Commands)
    /\ UNCHANGED <<pc, keep_running, query, intent, slots, out, calls,
                   effects, answers, typed, noteFile>>

SpecInput == Init /\ [][take_command_call]_vars

(***************************************************************************)
(* Vocabulary of the properties.                                           *)
(***************************************************************************)
Range(f) == { f[i] : i \in DOMAIN f }

Last(f) == f[Len(f)]

\* parse_and_execute starts on the utterance of the turn
ParseStep == pc = "parse" /\ pc' # "end"

\* the turn is over: parse_and_execute has returned to main
TurnDone == pc = "main" /\ query # Unset

ExitPhrases == {kw_exit, kw_quit, kw_bye, kw_goodbye}

HasExitPhrase(q) == \E w \in ExitPhrases : In(w, q)

\* C1: a non-empty utterance containing "exit", "quit", "bye" or "goodbye"
\* is resolved to Exit whatever else it contains: the farewell is spoken, no
\* handler is called, the loop variable becomes false and the loop is left
\* at its next test; once the loop is left nothing happens any more.
C1_ExitWins ==
    /\ [][ParseStep /\ query # <<>> /\ HasExitPhrase(query)
            => /\ intent' = "Exit"
               /\ out' = Append(out, Farewell)
               /\ calls' = <<>>
               /\ answers' = <<>>
               /\ pc' = "main"
               /\ ~keep_running']_vars
    /\ [](intent = "Exit" => calls = <<>> /\ effects = <<>> /\ answers = <<>>)
    /\ [][~keep_running => pc' = "end" /\ calls' = calls /\ query' = query]_vars
    /\ [][pc # "end"]_vars

\* C1 witness: "exit" and "time" in one utterance, farewell spoken, loop left.
C1_Witness ==
    /\ pc = "end"
    /\ In(kw_exit, query) /\ In(kw_time, query)
    /\ intent = "Exit"
    /\ out = <<Farewell>>
    /\ calls = <<>>

LeavesByExit ==
    /\ pc = "main" /\ intent = "Exit" /\ ~keep_running
    /\ out' = out

LeavesByFaultOrInterrupt ==
    \E m \in {ShuttingDown, ErrorExiting} : out' = Append(out, m)

\* C2: the loop is left only after an Exit turn or through one of the two
\* except clauses of main; a finished turn of any other intent, whatever
\* its handler reported, leaves keep_running true.
C2_OnlyExitTerminates ==
    /\ [][pc # "end" /\ pc' = "end"
            => LeavesByExit \/ LeavesByFaultOrInterrupt]_vars
    /\ [](TurnDone /\ intent # "Exit" => keep_running)
    /\ [][pc = "call" /\ pc' # "end" => pc' = "main" /\ keep_running']_vars

\* C2 witness: an e-mail turn whose handler failed, loop still running.
C2_Witness ==
    /\ TurnDone
    /\ intent = "SendEmail"
    /\ Last(out) = Msg("Failed to send the email. Check the log for details.")
    /\ keep_running


Intents ==
    {"Exit", "TellTime", "TellDate", "Identify", "Help", "WikiLookup",
     "WebSearch", "SendEmail", "Screenshot", "SystemStatus", "Remember",
     "RecallMemory", "PlaySong", "Joke", "FallbackSearch"}

\* The keyword predicates in their priority order.
Predicates ==
    << [intent |-> "Exit", words |-> ExitPhrases],
       [intent |-> "TellTime", words |-> {kw_time}],
       [intent |-> "TellDate", words |-> {kw_date}],
       [intent |-> "Identify", words |-> {kw_your_name, kw_what_is_your_name}],
       [intent |-> "Help",
        words |-> {kw_how_can_you_help, kw_how_can_you_help_me}],
       [intent |-> "WikiLookup", words |-> {kw_wikipedia}],
       [intent |-> "WebSearch",
        words |-> {kw_search, kw_search_in_chrome, kw_google}],
       [intent |-> "SendEmail", words |-> {kw_send_email, kw_email}],
       [intent |-> "Screenshot", words |-> {kw_screenshot, kw_screen_shot}],
       [intent |-> "SystemStatus", words |-> {kw_cpu, kw_battery}],
       [intent |-> "Remember", words |-> {kw_remember_that, kw_remember}],
       [intent |-> "RecallMemory",
        words |-> {kw_do_you_know_anything, kw_what_do_you_remember,
                   kw_what_did_i_tell_you}],
       [intent |-> "PlaySong", words |-> {kw_play, kw_play_song}],
       [intent |-> "Joke", words |-> {kw_joke}] >>

Matches(i, q) == \E w \in Predicates[i].words : In(w, q)

NoKeyword(q) == \A i \in DOMAIN Predicates : ~Matches(i, q)

FirstMatch(q) ==
    IF NoKeyword(q) THEN "FallbackSearch"
    ELSE LET first == CHOOSE i \in DOMAIN Predicates :
                        /\ Matches(i, q)
                        /\ \A j \in 1..(i - 1) : ~Matches(j, q)
         IN Predicates[first].intent

\* The handler functions a turn of each intent may call.
HandlersOf(i) ==
    CASE i = "TellTime" -> {"tell_time"}
      [] i = "TellDate" -> {"tell_date"}
      [] i = "WikiLookup" -> {"wiki_lookup"}
      [] i \in {"WebSearch", "FallbackSearch"} -> {"search_in_chrome"}
      [] i = "SendEmail" -> {"send_email"}
      [] i = "Screenshot" -> {"take_screenshot"}
      [] i = "SystemStatus" -> {"cpu_status"}
      [] i = "Remember" -> {"remember_to_file"}
      [] i = "RecallMemory" -> {"read_memory"}
      [] i = "PlaySong" -> {"play_song"}
      [] i = "Joke" -> {"tell_joke"}
      [] OTHER -> {}

OneBranchRan ==
    /\ intent \in Intents
    /\ Len(calls) = IF HandlersOf(intent) = {} THEN 0 ELSE 1
    /\ \A c \in Range(calls) : c[1] \in HandlersOf(intent)

FallbackGetsUtterance ==
    NoKeyword(query)
        => intent = "FallbackSearch"
           /\ calls = << <<"search_in_chrome", query>> >>

\* C3 as claimed: every finished turn, whatever its utterance, ran exactly
\* one intent branch, and an utterance without keyword went to the search
\* handler unmodified.
C3_EveryUtteranceHasIntent ==
    TurnDone => OneBranchRan /\ FallbackGetsUtterance

\* C3, amended: every finished turn of a non-empty utterance ran exactly one
\* intent branch, which does not change during the turn, and a non-empty
\* utterance without keyword went to the search handler unmodified.
C3_NonEmptyHasIntent ==
    /\ [](TurnDone /\ query # <<>> => OneBranchRan /\ FallbackGetsUtterance)
    /\ [][ParseStep /\ query # <<>> => intent' \in Intents]_vars
    /\ [][intent # "none" /\ pc # "main" => intent' = intent]_vars

\* C3 witness: " cats", heard with its leading blank, searched as heard.
C3_Witness ==
    /\ TurnDone
    /\ query = w_space \o w_cats
    /\ intent = "FallbackSearch"
    /\ calls = << <<"search_in_chrome", w_space \o w_cats>> >>

SlotHandlers ==
    {"wiki_lookup", "search_in_chrome", "play_song", "remember_to_file",
     "send_email"}

SlotValues(c) ==
    IF c[1] = "send_email" THEN {c[2][1], c[2][2], c[2][3]} ELSE {c[2]}

\* C4 as claimed: no capability handler is called with an empty slot value.
C4_NoEmptySlotCall ==
    \A c \in Range(calls) : c[1] \in SlotHandlers => <<>> \notin SlotValues(c)

FallbackOutcomes == {"timeout", "unknown_value", "request_error"}

FallbackPrompts == {NoSpeech, NotUnderstood, ServiceFailed}

\* C5 as claimed: a take_command call never raises, whatever the outcome of
\* the voice channel, and after a listen timeout, untranscribable speech or
\* a service error it has spoken a prompt and returns the typed text.
C5_InputNeverFails ==
    lastInput.outcome # "none"
        => /\ ~lastInput.raised
           /\ lastInput.value # Unset
           /\ lastInput.outcome \in FallbackOutcomes
                => /\ Last(lastInput.said) \in FallbackPrompts
                   /\ lastInput.value = Lower(Strip(lastInput.raw))

\* C6: a turn on the empty utterance changes nothing but the position of
\* main: no intent, no handler, no message, no follow-up, note untouched,
\* loop variable true.
C6_EmptyIsNoOp ==
    /\ [][ParseStep /\ query = <<>>
            => /\ pc' = "main"
               /\ keep_running'
               /\ UNCHANGED <<intent, slots, out, calls, effects, answers,
                              typed, noteFile>>]_vars
    /\ [](TurnDone /\ query = <<>>
            => /\ intent = "none"
               /\ out = <<>>
               /\ calls = <<>>
               /\ effects = <<>>
               /\ answers = <<>>
               /\ keep_running)

\* C6 witness: an empty turn after an empty note was saved in this run.
C6_Witness ==
    /\ TurnDone
    /\ query = <<>>
    /\ noteFile = <<>>
    /\ keep_running

\* C7: the intent of a turn is that of the first matching predicate of the
\* priority order, a function of the utterance alone; only the handler of
\* that intent is called ("screenshot" with "time" tells the time and takes
\* no screenshot).
C7_FirstMatchWins ==
    /\ intent # "none" => intent = FirstMatch(query)
    /\ \A c \in Range(calls) : c[1] \in HandlersOf(intent)
    /\ TurnDone /\ In(kw_screenshot, query) /\ In(kw_time, query)
         /\ ~HasExitPhrase(query)
         => /\ intent = "TellTime"
            /\ calls = << <<"tell_time", <<>>>> >>
            /\ effects = <<>>

\* C7 witness: "screenshottime" told the time.
C7_Witness ==
    /\ TurnDone
    /\ query = kw_screenshot \o kw_time
    /\ intent = "TellTime"
    /\ calls = << <<"tell_time", <<>>>> >>

\* C8 as claimed: extracting the slot from the extracted slot changes
\* nothing, for the three intents that extract from the utterance.
C8_ExtractionIdempotent ==
    /\ intent = "WikiLookup" => WikiTerm(WikiTerm(query)) = WikiTerm(query)
    /\ intent = "WebSearch" => SearchTerm(SearchTerm(query)) = SearchTerm(query)
    /\ intent = "PlaySong" => SongName(SongName(query)) = SongName(query)

Count(m, f) == Cardinality({ i \in DOMAIN f : f[i] = m })

\* C9: a PlaySong turn whose utterance leaves no song name asks once, reads
\* one answer, and calls play_song with that answer; the loop goes on.
C9_PlayAsksOnce ==
    /\ [](TurnDone /\ intent = "PlaySong"
            /\ Strip(Remove(Remove(query, kw_play), kw_play_song)) = <<>>
            => /\ Count(AskSong, out) = 1
               /\ Len(answers) = 1
               /\ calls = << <<"play_song", answers[1]>> >>
               /\ keep_running)
    /\ [][pc = "ask_song" /\ pc' # "end"
            => /\ pc' = "call"
               /\ Len(answers') = 1
               /\ slots'.song = answers'[1]]_vars

\* C9 witness: "play", then "imagine".
C9_Witness ==
    /\ TurnDone
    /\ query = kw_play
    /\ answers = <<w_imagine>>
    /\ calls = << <<"play_song", w_imagine>> >>

AddressLike(s) ==
    /\ \E i \in DOMAIN s : s[i] = "@"
    /\ \E i \in DOMAIN s : s[i] = "."
    /\ \A i \in DOMAIN s : s[i] # " "

\* C10: in a SendEmail turn, a subject answer with "@", "." and no space is
\* taken as the recipient, the subject becomes "No subject" and no
\* recipient is asked for; any other subject is kept and the recipient is
\* read from its own prompt before send_email is called.
C10_SubjectAsRecipient ==
    /\ pc = "call" /\ intent = "SendEmail"
         => Len(typed) = IF AddressLike(answers[1]) THEN 0 ELSE 1
    /\ TurnDone /\ intent = "SendEmail"
         => IF AddressLike(answers[1])
            THEN /\ calls = << <<"send_email",
                                <<answers[1], w_no_subject, answers[2]>> >> >>
                 /\ AskRecipient \notin Range(out)
                 /\ typed = <<>>
            ELSE /\ Len(typed) = 1
                 /\ calls = << <<"send_email",
                                <<Strip(typed[1]), answers[1], answers[2]>> >> >>
                 /\ Count(AskRecipient, out) = 1

\* C10 witness: subject "alice@example.com", body "buy milk".
C10_Witness ==
    /\ TurnDone
    /\ intent = "SendEmail"
    /\ calls = << <<"send_email", <<w_alice, w_no_subject, w_buy_milk>> >> >>


InterruptStep == pc # "end" /\ out' = Append(out, ShuttingDown)

\* positions inside a turn: parse_and_execute has started and not returned
InTurn ==
    {"parse", "ask_term", "ask_search", "ask_subject", "ask_body",
     "ask_recipient", "ask_note", "ask_song", "call"}

\* C11: an interrupt can arrive at every position of the running loop; it
\* ends the loop at once, with one shutdown message, and nothing else of the
\* turn is executed: no handler call, no effect, no read, no write of the
\* note; nothing runs afterwards.  A turn is abandoned in no other way than
\* through the except clauses of main.
C11_InterruptTerminates ==
    /\ [](pc # "end" => ENABLED KeyboardInterrupt)
    /\ [][InterruptStep
            => /\ pc' = "end"
               /\ UNCHANGED <<keep_running, query, intent, slots, calls,
                              effects, answers, typed, noteFile>>]_vars
    /\ [](Count(ShuttingDown, out) <= 1)
    /\ [][(pc \in InTurn) /\ pc' = "end" => LeavesByFaultOrInterrupt]_vars
    /\ [][pc # "end"]_vars

\* C11 witness: interrupted when play_song("imagine") was about to run.
C11_Witness ==
    /\ pc = "end"
    /\ Last(out) = ShuttingDown
    /\ intent = "PlaySong"
    /\ slots.song = w_imagine
    /\ calls = <<>>
    /\ effects = <<>>


ExtractingIntents == {"WikiLookup", "WebSearch", "PlaySong"}

\* the slot an extracting intent takes from the utterance
Extracted(i, q) ==
    CASE i = "WikiLookup" -> Strip(Remove(q, kw_wikipedia))
      [] i = "WebSearch" ->
           Strip(Remove(Remove(Remove(q, kw_search_in_chrome), kw_search),
                        kw_google))
      [] i = "PlaySong" -> Strip(Remove(Remove(q, kw_play), kw_play_song))

ClarificationOf(i) ==
    CASE i = "WikiLookup" -> AskTerm
      [] i = "WebSearch" -> AskSearch
      [] i = "PlaySong" -> AskSong
      [] i = "Remember" -> AskNote

SlotIntents == ExtractingIntents \cup {"Remember", "SendEmail"}

\* what removing the trigger keywords and trimming leaves of the utterance
WithoutTriggers(i, q) ==
    CASE i \in ExtractingIntents -> Extracted(i, q)
      [] i = "Remember" -> Strip(Remove(Remove(q, kw_remember_that), kw_remember))
      [] i = "SendEmail" -> Strip(Remove(Remove(q, kw_send_email), kw_email))

FirstPromptOf(i) == IF i = "SendEmail" THEN AskSubject ELSE ClarificationOf(i)

\* C13 as claimed: for each of the five intents with slots, what the
\* utterance leaves after its trigger keywords are removed is accepted as
\* the slot when it is not empty, and the user is not asked for it.
C13_EverySlotExtracted ==
    TurnDone /\ intent \in SlotIntents /\ WithoutTriggers(intent, query) # <<>>
        => /\ FirstPromptOf(intent) \notin Range(out)
           /\ WithoutTriggers(intent, query) \in SlotValues(calls[1])

\* C13, amended: WikiLookup, WebSearch and PlaySong take their slot from the
\* utterance when the extraction is not empty, and then ask nothing;
\* Remember and SendEmail extract nothing: Remember always asks for the note
\* and SendEmail always asks for subject and body.
C13_ThreeIntentsExtract ==
    /\ pc \in {"call", "main"} /\ intent \in ExtractingIntents
         /\ Extracted(intent, query) # <<>>
         => /\ answers = <<>>
            /\ ClarificationOf(intent) \notin Range(out)
    /\ TurnDone /\ intent \in ExtractingIntents
         /\ Extracted(intent, query) # <<>>
         => /\ Len(calls) = 1
            /\ calls[1][2] = Extracted(intent, query)
    /\ TurnDone /\ intent = "Remember"
         => /\ Count(AskNote, out) = 1
            /\ Len(answers) = 1
            /\ calls = << <<"remember_to_file", answers[1]>> >>
    /\ TurnDone /\ intent = "SendEmail"
         => /\ Count(AskSubject, out) = 1
            /\ Count(AskBody, out) = 1
            /\ Len(answers) = 2

\* C13 witness: "play imagine" played "imagine" without a question.
C13_Witness ==
    /\ TurnDone
    /\ query = Lower(r_Play_Imagine)
    /\ answers = <<>>
    /\ calls = << <<"play_song", w_imagine>> >>


\* position of an intent in the priority order
Priority(i) == CHOOSE k \in DOMAIN Predicates : Predicates[k].intent = i

\* no predicate ahead of intent i matches q
NoEarlierMatch(i, q) == \A k \in 1..(Priority(i) - 1) : ~Matches(k, q)

\* C14 as claimed: every utterance containing "email" goes to SendEmail.
C14_EmailAlwaysSendEmail ==
    intent # "none" /\ In(kw_email, query) => intent = "SendEmail"

\* C14, amended: every utterance that contains "email" anywhere, even inside
\* another word, and matches none of the seven earlier predicates, goes to
\* SendEmail.
C14_EmailUnlessEarlier ==
    /\ intent # "none" /\ In(kw_email, query)
         /\ NoEarlierMatch("SendEmail", query)
         => intent = "SendEmail"
    /\ TurnDone /\ In(kw_email, query) /\ NoEarlierMatch("SendEmail", query)
         => Len(calls) = 1 /\ calls[1][1] = "send_email"

\* C14 witness: "emailplay", "email" inside a longer word, sent an e-mail.
C14_Witness ==
    /\ TurnDone
    /\ query = kw_email \o kw_play
    /\ intent = "SendEmail"
    /\ Len(calls) = 1
    /\ calls[1][1] = "send_email"


\* C15 as claimed: whatever take_command returns is the lower-cased and
\* trimmed form of what was heard or typed, on every path.
C15_AlwaysNormalized ==
    lastInput.outcome # "none" /\ ~lastInput.raised
        => lastInput.value = Lower(Strip(lastInput.raw))

RememberStep == pc = "call" /\ intent = "Remember" /\ pc' = "main"

NothingSaved == Msg("I have nothing saved yet.")
FileEmpty == Msg("The memory file is empty.")
UnableToRead == Msg("Unable to read the memory file.")
WillRemember == Msg("I will remember that.")

RecallReports ==
    \/ out = <<UnableToRead>>
    \/ noteFile = NoFile /\ out = <<NothingSaved>>
    \/ noteFile # NoFile /\ Strip(noteFile) = <<>> /\ out = <<FileEmpty>>
    \/ /\ noteFile # NoFile
       /\ Strip(noteFile) # <<>>
       /\ out = << Msg("You asked me to remember the following:"),
                   MsgOf("<content>", Strip(noteFile)) >>

\* C16 as claimed: the note is last-writer-wins among the successful
\* Remember turns: only a Remember turn that reports success changes it, to
\* its own note text; no other turn changes it; a RecallMemory turn reports
\* it, or that nothing is saved when there is none.
C16_LastWriterWins ==
    /\ [][noteFile' # noteFile
            => /\ RememberStep
               /\ Last(out') = WillRemember
               /\ noteFile' = slots.note]_vars
    /\ [](TurnDone /\ intent = "RecallMemory" => RecallReports)

AskPositions ==
    {"ask_term", "ask_search", "ask_subject", "ask_body", "ask_note",
     "ask_song"}

\* C17: the answer to a follow-up question is not matched against the
\* keyword predicates: reading it changes neither the intent nor the loop
\* variable and calls nothing, and at the end of the turn every answer,
\* exit phrase or not, is a slot value of the one handler call of the turn.
C17_AnswersNotMatched ==
    /\ [][(pc \in AskPositions) /\ pc' # "end"
            => /\ intent' = intent
               /\ keep_running'
               /\ calls' = calls
               /\ pc' \in AskPositions \cup {"ask_recipient", "call"}]_vars
    /\ [](TurnDone /\ answers # <<>>
            => /\ keep_running
               /\ Len(calls) = 1
               /\ \A i \in DOMAIN answers : answers[i] \in SlotValues(calls[1]))

\* C17 witness: "wikipedia", then "quit": wiki_lookup("quit"), loop goes on.
C17_Witness ==
    /\ TurnDone
    /\ intent = "WikiLookup"
    /\ answers = <<kw_quit>>
    /\ calls = << <<"wiki_lookup", kw_quit>> >>
    /\ keep_running


\* the follow-up answers a turn of intent i may read
MaxAnswers(i) ==
    IF i = "SendEmail" THEN 2
    ELSE IF i \in {"WikiLookup", "WebSearch", "PlaySong", "Remember"} THEN 1
    ELSE 0

\* the steps a turn at position p can still take
Rank(p) ==
    CASE p = "parse" -> 5
      [] p = "ask_subject" -> 4
      [] p = "ask_body" -> 3
      [] p \in {"ask_term", "ask_search", "ask_note", "ask_song",
                "ask_recipient"} -> 2
      [] p = "call" -> 1
      [] OTHER -> 0

\* a step of the turn in which the read or the handler returns
Returns == Next /\ pc' # "end"

\* C18: a turn reads at most two follow-up answers and one typed recipient
\* (SendEmail), at most one answer for WikiLookup, WebSearch, PlaySong and
\* Remember, none otherwise; every step of a turn brings it nearer to its
\* end, a returning step is always possible, and after the turn main goes
\* to the next take_command or leaves the loop.
C18_TurnIsBounded ==
    /\ [](Len(answers) <= MaxAnswers(intent))
    /\ [](Len(typed) <= IF intent = "SendEmail" THEN 1 ELSE 0)
    /\ [][(pc \in InTurn) => Rank(pc') < Rank(pc)]_vars
    /\ [](pc \in InTurn => ENABLED Returns)
    /\ [](pc = "main" => ENABLED main_loop)
    /\ [][pc = "main" => pc' \in {"take_command", "end"}]_vars

\* C18 witness: an e-mail turn with subject, body and typed recipient.
C18_Witness ==
    /\ TurnDone
    /\ intent = "SendEmail"
    /\ Len(answers) = 2
    /\ Len(typed) = 1

GuardedHandlers == {"wiki_lookup", "search_in_chrome", "play_song"}

GuardedEffects ==
    {"wikipedia.summary", "webbrowser.open_new_tab", "pywhatkit.playonyt"}

NothingProvided(fn) ==
    CASE fn = "wiki_lookup" -> Msg("No search term provided for Wikipedia.")
      [] fn = "search_in_chrome" -> Msg("No search query provided.")
      [] fn = "play_song" -> Msg("No song specified.")

\* the handler called in this step gets the empty string
CalledWithNothing ==
    /\ pc = "call"
    /\ Len(calls') = Len(calls) + 1
    /\ Last(calls')[1] \in GuardedHandlers
    /\ Last(calls')[2] = <<>>

\* C19: the encyclopedia query, the browser tab and the playback are never
\* started with an empty value; wiki_lookup, search_in_chrome and play_song
\* called with the empty string say that nothing was provided, do nothing
\* else, and the loop goes on.
C19_NoEffectOnEmpty ==
    /\ [](\A e \in Range(effects) : e[1] \in GuardedEffects => e[2] # <<>>)
    /\ [][CalledWithNothing
            => /\ out' = Append(out, NothingProvided(Last(calls')[1]))
               /\ effects' = effects
               /\ noteFile' = noteFile
               /\ pc' = "main"
               /\ keep_running']_vars

\* C19 witness: play_song("") said "No song specified." and played nothing.
C19_Witness ==
    /\ TurnDone
    /\ calls = << <<"play_song", <<>>>> >>
    /\ Last(out) = Msg("No song specified.")
    /\ effects = <<>>
    /\ keep_running

\* C20: an utterance with "remember" and no earlier trigger is a Remember
\* turn, "what do you remember" included; a RecallMemory turn has "do you
\* know anything" or "what did i tell you" in its utterance, no "remember"
\* and no earlier trigger.
C20_RememberShadowsRecall ==
    /\ intent # "none" /\ In(kw_remember, query)
         /\ NoEarlierMatch("Remember", query)
         => intent = "Remember"
    /\ intent = "RecallMemory"
         => /\ In(kw_do_you_know_anything, query)
               \/ In(kw_what_did_i_tell_you, query)
            /\ ~In(kw_remember, query)
            /\ NoEarlierMatch("Remember", query)
    /\ TurnDone /\ In(kw_what_do_you_remember, query)
         /\ NoEarlierMatch("Remember", query)
         => calls[1][1] = "remember_to_file"
    /\ TurnDone /\ intent = "RecallMemory" => calls[1][1] = "read_memory"

\* C20 witness: "what do you remember" asked for a note and saved it.
C20_Witness ==
    /\ TurnDone
    /\ query = kw_what_do_you_remember
    /\ intent = "Remember"
    /\ Count(AskNote, out) = 1
    /\ calls[1][1] = "remember_to_file"

=============================================================================
